---- MODULE Spec2Model ----
(***************************************************************************)
(* Ride-pool matching and assignment engine of Sahil-796/alike.            *)
(*                                                                         *)
(* The store (PostgreSQL, READ COMMITTED) is modelled by the committed     *)
(* tables rides, pools, drivers and by the row locks that an open          *)
(* transaction holds.  A statement that needs a locked row waits: its      *)
(* action is disabled until the lock is released.  A db.transaction is     *)
(* split at the points where it can wait; its writes become visible in the *)
(* step that commits.  A statement run outside any transaction commits by  *)
(* itself and keeps no lock.                                               *)
(*                                                                         *)
(* Coordinates are positions in km on one line; (lat 0, lng 0) is ORIGIN.  *)
(* A centroid is kept exactly, as the rational num / den.                  *)
(***************************************************************************)
EXTENDS Integers, Sequences, FiniteSets, TLC

\* ------------------------------------------------------------------ bounds
MaxRequests == 3
NumDrivers == 2
NumWorkers == 2
MaxSeatsReq == 3
MaxLuggageReq == 2
MaxRides == 4
NumTx == 2

\* ------------------------------------------------------- program constants
ORIGIN == 0
AIRPORT == 100
AIRPORT_RADIUS_KM == 2
PoolSearchRadiusKm == 5
PoolSearchLimit == 10
DetourToleranceKm == 3
DefaultCapacity == 4
CancellationFee == 5
DefaultMaxDetourKm == 3
DriverSearchRadiusKm == 10

\* ride ids; a behaviour of Spec makes MaxRequests requests, so its rides and
\* the rides its requests name are among the first MaxRequests ids
RideIds == 1..MaxRides
RequestIds == 1..MaxRequests
DriverIds == 1..NumDrivers
Workers == 1..NumWorkers
TxIds == 1..NumTx
CityLocs == {AIRPORT + 4}
\* city points on both sides of the airport, for the detour of an insertion
DetourLocs == {AIRPORT - 3, AIRPORT + 4}

\* seed data: every driver owns one vehicle and reports a location; as in the
\* seed (4 and 6 seats), the driver nearer to the airport has the smaller car
Vehicles == [d \in DriverIds |->
               IF d % 2 = 1 THEN [maxSeats |-> 2, maxLuggage |-> 1]
                            ELSE [maxSeats |-> 3, maxLuggage |-> 1]]
DriverHome == [d \in DriverIds |-> AIRPORT + 5 * d]

VARIABLES
  rides,      \* ride_requests table: RideIds -> row ("none" = no such row)
  pools,      \* pools table: sequence of rows, a pool's id is its index
  drivers,    \* drivers table
  queue,      \* the "ride-matching" queue, FIFO
  procs,      \* each worker's position in the job it runs, and its locals
  result,     \* each worker's last return value of a queries/rides call
  poolLock,   \* pool id -> worker whose open transaction holds the row lock
  ledger,     \* history: per pool, admitted demand minus released demand
  nRequests,  \* number of client requests made so far
  arrival,    \* the last driverArrived call and its return value
  driverLock, \* driver id -> transaction that holds the row lock
  rideLock,   \* ride id -> transaction that holds the row lock
  txs         \* the open transactions of the calls followed statement by statement

vars == <<rides, pools, drivers, queue, procs, result, poolLock, ledger,
          nRequests, arrival, driverLock, rideLock, txs>>

\* --------------------------------------------------------------- geometry
Abs(x) == IF x < 0 THEN -x ELSE x

\* Haversine distance, on the line
calculateDistance(a, b) == Abs(a - b)

RECURSIVE SumPos(_)
SumPos(wps) == IF wps = <<>> THEN 0 ELSE Head(wps).pos + SumPos(Tail(wps))

calculatePoolCenter(waypoints) ==
  IF Len(waypoints) = 0 THEN [num |-> 0, den |-> 1]
  ELSE [num |-> SumPos(waypoints), den |-> Len(waypoints)]

\* center.lat.toString() written to centerLat, a numeric column of the same
\* scale as the coordinate columns: the value is rounded to the nearest unit
\* of that scale, halves away from zero (coordinates here are not negative)
toNumeric(c) == [num |-> (2 * c.num + c.den) \div (2 * c.den), den |-> 1]

\* ST_DWithin(center, point, km)
WithinKm(center, pos, km) ==
  Abs(center.num - center.den * pos) <= km * center.den

\* ST_Distance(c1, point) < ST_Distance(c2, point)
Closer(c1, c2, pos) ==
  Abs(c1.num - c1.den * pos) * c2.den < Abs(c2.num - c2.den * pos) * c1.den

detectDirection(pickup, dropoff) ==
  IF calculateDistance(pickup, AIRPORT) < AIRPORT_RADIUS_KM THEN "airport_to_city"
  ELSE IF calculateDistance(dropoff, AIRPORT) < AIRPORT_RADIUS_KM THEN "city_to_airport"
  ELSE "null"

\* ----------------------------------------------------------- detour solver
RECURSIVE calculateRouteDistance(_)
calculateRouteDistance(wps) ==
  IF Len(wps) < 2 THEN 0
  ELSE calculateDistance(wps[1].pos, wps[2].pos) + calculateRouteDistance(Tail(wps))

OfType(wps, t) == SelectSeq(wps, LAMBDA w : w.type = t)

MinOf(S) == CHOOSE x \in S : \A y \in S : x <= y

\* detourKm is meaningful only when finite; finite = FALSE stands for Infinity
calculateCityToAirportDetour(existing, newPickup, maxDetourKm) ==
  IF Len(existing) = 0 THEN [canAdd |-> TRUE, finite |-> TRUE, detourKm |-> 0]
  ELSE
    LET pickups == OfType(existing, "pickup")
        drops == OfType(existing, "dropoff")
    IN IF drops = <<>> THEN [canAdd |-> FALSE, finite |-> FALSE, detourKm |-> 0]
       ELSE
         LET airport == Head(drops)
             currentDistance == calculateRouteDistance(existing)
             new == [pos |-> newPickup, type |-> "pickup", rideRequestId |-> 0]
             route(i) == SubSeq(pickups, 1, i) \o <<new>>
                           \o SubSeq(pickups, i + 1, Len(pickups)) \o <<airport>>
             minNewDistance ==
               MinOf({calculateRouteDistance(route(i)) : i \in 0..Len(pickups)})
             detourKm == minNewDistance - currentDistance
         IN [canAdd |-> detourKm <= maxDetourKm, finite |-> TRUE, detourKm |-> detourKm]

calculateAirportToCityDetour(existing, newDropoff, maxDetourKm) ==
  IF Len(existing) = 0 THEN [canAdd |-> TRUE, finite |-> TRUE, detourKm |-> 0]
  ELSE
    LET picks == OfType(existing, "pickup")
        dropoffs == OfType(existing, "dropoff")
    IN IF picks = <<>> THEN [canAdd |-> FALSE, finite |-> FALSE, detourKm |-> 0]
       ELSE
         LET airport == Head(picks)
             currentDistance == calculateRouteDistance(existing)
             new == [pos |-> newDropoff, type |-> "dropoff", rideRequestId |-> 0]
             route(i) == <<airport>> \o SubSeq(dropoffs, 1, i) \o <<new>>
                           \o SubSeq(dropoffs, i + 1, Len(dropoffs))
             minNewDistance ==
               MinOf({calculateRouteDistance(route(i)) : i \in 0..Len(dropoffs)})
             detourKm == minNewDistance - currentDistance
         IN [canAdd |-> detourKm <= maxDetourKm, finite |-> TRUE, detourKm |-> detourKm]

calculateOptimalDetour(existing, newPickup, newDropoff, direction, maxDetourKm) ==
  IF direction = "city_to_airport"
    THEN calculateCityToAirportDetour(existing, newPickup, maxDetourKm)
  ELSE IF direction = "airport_to_city"
    THEN calculateAirportToCityDetour(existing, newDropoff, maxDetourKm)
  ELSE [canAdd |-> FALSE, finite |-> FALSE, detourKm |-> 0]

calculateDetour(pool, newPickup, newDropoff, direction) ==
  IF Len(pool.waypoints) < 2 THEN [canAdd |-> TRUE, finite |-> TRUE, detourKm |-> 0]
  ELSE calculateOptimalDetour(pool.waypoints, newPickup, newDropoff, direction,
                              DetourToleranceKm)

\* ------------------------------------------------------------------ rows
NoRide == [status |-> "none", poolId |-> 0, seats |-> 0, luggage |-> 0,
           pickup |-> 0, dropoff |-> 0]
NoPool == [driverId |-> 0, maxSeats |-> 0, maxLuggage |-> 0, filledSeats |-> 0,
           filledLuggage |-> 0, status |-> "none", direction |-> "null",
           waypoints |-> <<>>, center |-> [num |-> 0, den |-> 1], version |-> 0,
           driverArrivedAt |-> FALSE]
NoJob == [name |-> "none", rideId |-> 0, pickup |-> 0, dropoff |-> 0, seats |-> 0,
          luggage |-> 0, direction |-> "null"]
NoFound == [id |-> 0, filledSeats |-> 0, maxSeats |-> 0]
NoResult == [op |-> "none", ok |-> FALSE, error |-> "", fee |-> 0]
Idle == [pc |-> "idle", job |-> NoJob, existingPool |-> NoFound, pool |-> NoPool,
         ride |-> NoRide, nearestDriver |-> 0]
\* no open transaction: the call, its arguments, the rows it has read and the
\* ride rows its UPDATE ... WHERE pool_id has still to lock
NoTx == [op |-> "none", pc |-> "idle", poolId |-> 0, driverId |-> 0, rideId |-> 0,
         pool |-> NoPool, ride |-> NoRide, toLock |-> {}]

PoolIds == 1..Len(pools)

Ok(op, fee) == [op |-> op, ok |-> TRUE, error |-> "", fee |-> fee]
Err(op, e) == [op |-> op, ok |-> FALSE, error |-> e, fee |-> 0]

\* faulty variant: the statement does not wait for the row lock
RowFreeNoWait(k, w) == TRUE

\* a statement on pool row k by worker w has to wait while another
\* transaction holds the row lock
RowFree(k, w) == poolLock[k] \in {0, w}

Waypoint(pos, type, rideId) == [pos |-> pos, type |-> type, rideRequestId |-> rideId]

\* ----------------------------------------------------------- findBestPool
\* faulty variant: the status filter is missing from the WHERE clause
IsCandidateAnyStatus(pool, pickup, seats, luggage, direction, maxDistanceKm) ==
  /\ pool.driverId # 0
  /\ pool.direction = direction
  /\ pool.filledSeats + seats <= pool.maxSeats
  /\ pool.filledLuggage + luggage <= pool.maxLuggage
  /\ WithinKm(pool.center, pickup, maxDistanceKm)

\* the WHERE clause of the candidate query
IsCandidate(pool, pickup, seats, luggage, direction, maxDistanceKm) ==
  /\ pool.status = "forming"
  /\ pool.driverId # 0
  /\ pool.direction = direction
  /\ pool.filledSeats + seats <= pool.maxSeats
  /\ pool.filledLuggage + luggage <= pool.maxLuggage
  /\ WithinKm(pool.center, pickup, maxDistanceKm)

\* faulty variant: the candidate query has no WHERE clause
AvailablePoolsUnfiltered(pickup, seats, luggage, direction, maxDistanceKm) ==
  {PoolIds}

\* the possible row sets of ORDER BY distance LIMIT 10 (ties in any order)
AvailablePools(pickup, seats, luggage, direction, maxDistanceKm) ==
  LET cand == {k \in PoolIds :
                 IsCandidate(pools[k], pickup, seats, luggage, direction, maxDistanceKm)}
  IN IF Cardinality(cand) <= PoolSearchLimit THEN {cand}
     ELSE {S \in SUBSET cand :
             /\ Cardinality(S) = PoolSearchLimit
             /\ \A a \in S, b \in cand \ S :
                  ~Closer(pools[b].center, pools[a].center, pickup)}

\* faulty variant: the nearest row is returned whatever its detour
findNearestPool(pickup, dropoff, seats, luggage, direction, maxDistanceKm) ==
  UNION {
    {k \in S : \A j \in S : ~Closer(pools[j].center, pools[k].center, pickup)}
    : S \in AvailablePools(pickup, seats, luggage, direction, maxDistanceKm)}

\* the pools the loop over the rows can end with: the first strict minimum of
\* the detour in ascending distance order; {} when it returns undefined
findBestPool(pickup, dropoff, seats, luggage, direction, maxDistanceKm) ==
  UNION {
    LET det(k) == calculateDetour(pools[k], pickup, dropoff, direction)
        fin == {k \in S : det(k).finite}
    IN {k \in fin :
          /\ \A j \in fin : det(k).detourKm <= det(j).detourKm
          /\ \A j \in fin : det(j).detourKm = det(k).detourKm
                => ~Closer(pools[j].center, pools[k].center, pickup)}
    : S \in AvailablePools(pickup, seats, luggage, direction, maxDistanceKm)}

\* ------------------------------------------------------------- HTTP layer
\* POST /api/rides: insert the ride as pending, enqueue its find-pool job
SubmitRide(r, pickup, dropoff, seats, luggage) ==
  /\ nRequests < MaxRequests
  /\ nRequests' = nRequests + 1
  /\ rides[r].status = "none"
  /\ \A q \in RideIds : q < r => rides[q].status # "none"
  /\ detectDirection(pickup, dropoff) # "null"
  /\ rides' = [rides EXCEPT ![r] =
        [status |-> "pending", poolId |-> 0, seats |-> seats, luggage |-> luggage,
         pickup |-> pickup, dropoff |-> dropoff]]
  /\ queue' = Append(queue,
        [name |-> "find-pool", rideId |-> r, pickup |-> pickup, dropoff |-> dropoff,
         seats |-> seats, luggage |-> luggage,
         direction |-> detectDirection(pickup, dropoff)])
  /\ UNCHANGED <<pools, drivers, procs, result, poolLock, ledger, arrival,
               driverLock, rideLock, txs>>

\* POST /api/rides/{id}/cancel: addRideToQueue, which names the job find-pool
PostCancel(r) ==
  /\ nRequests < MaxRequests
  /\ nRequests' = nRequests + 1
  /\ queue' = Append(queue,
        [name |-> "find-pool", rideId |-> r, pickup |-> ORIGIN, dropoff |-> ORIGIN,
         seats |-> 0, luggage |-> 0, direction |-> "city_to_airport"])
  /\ UNCHANGED <<rides, pools, drivers, procs, result, poolLock, ledger, arrival,
               driverLock, rideLock, txs>>

\* a producer puts a cancel-ride job on the queue
EnqueueCancelRide(r) ==
  /\ nRequests < MaxRequests
  /\ nRequests' = nRequests + 1
  /\ queue' = Append(queue, [NoJob EXCEPT !.name = "cancel-ride", !.rideId = r])
  /\ UNCHANGED <<rides, pools, drivers, procs, result, poolLock, ledger, arrival,
               driverLock, rideLock, txs>>

\* the queue hands a job to a worker that is not running one; the workers are
\* interchangeable, so it is always the first free one
FreeWorker(w) ==
  /\ procs[w].pc = "idle"
  /\ \A v \in Workers : v < w => procs[v].pc # "idle"

\* ------------------------------------------------ worker: processRideMatching
\* the worker takes the find-pool job at the head of the queue and runs
\* findBestPool for it; the ride row itself is never read
StartFindPool(w) ==
  /\ FreeWorker(w)
  /\ queue # <<>>
  /\ Head(queue).name = "find-pool"
  /\ LET job == Head(queue)
         best == findBestPool(job.pickup, job.dropoff, job.seats, job.luggage,
                              job.direction, PoolSearchRadiusKm)
         me == [Idle EXCEPT !.job = job]
     IN IF best = {}
          THEN procs' = [procs EXCEPT ![w] = [me EXCEPT !.pc = "create"]]
          ELSE \E k \in best :
                 procs' = [procs EXCEPT ![w] =
                   [me EXCEPT !.pc = "assign",
                              !.existingPool = [id |-> k,
                                                filledSeats |-> pools[k].filledSeats,
                                                maxSeats |-> pools[k].maxSeats]]]
  /\ queue' = Tail(queue)
  /\ UNCHANGED <<rides, pools, drivers, result, poolLock, ledger, nRequests, arrival,
               driverLock, rideLock, txs>>

\* assignRideToPool, SELECT ... FOR UPDATE: waits for the row lock, takes it
\* and reads the committed row
AssignLock(w) ==
  /\ procs[w].pc = "assign"
  /\ LET k == procs[w].existingPool.id
     IN /\ RowFree(k, w)
        /\ poolLock' = [poolLock EXCEPT ![k] = w]
        /\ procs' = [procs EXCEPT ![w].pc = "assign_locked", ![w].pool = pools[k]]
  /\ UNCHANGED <<rides, pools, drivers, queue, result, ledger, nRequests, arrival,
               driverLock, rideLock, txs>>

\* faulty variant: the seat check is missing, only luggage is checked
HasCapacityLuggageOnly(pool, ride) ==
  ~(pool.filledLuggage + ride.luggage > pool.maxLuggage)

\* the two capacity checks made on the locked row
HasCapacity(pool, ride) ==
  /\ ~(pool.filledSeats + ride.seats > pool.maxSeats)
  /\ ~(pool.filledLuggage + ride.luggage > pool.maxLuggage)

CapacityError(pool, ride) ==
  IF pool.filledSeats + ride.seats > pool.maxSeats THEN "Not enough seats"
  ELSE "Not enough luggage space"

\* faulty variant: the center is not computed again for the new waypoints
AssignedPoolOldCenter(current, pool, ride, rideId) ==
  LET updatedWaypoints == pool.waypoints \o
        << Waypoint(ride.pickup, "pickup", rideId),
           Waypoint(ride.dropoff, "dropoff", rideId) >>
  IN [current EXCEPT !.filledSeats = pool.filledSeats + ride.seats,
                     !.filledLuggage = pool.filledLuggage + ride.luggage,
                     !.waypoints = updatedWaypoints,
                     !.version = pool.version + 1]

\* the pool row written by a successful assignment
AssignedPool(current, pool, ride, rideId) ==
  LET updatedWaypoints == pool.waypoints \o
        << Waypoint(ride.pickup, "pickup", rideId),
           Waypoint(ride.dropoff, "dropoff", rideId) >>
  IN [current EXCEPT !.filledSeats = pool.filledSeats + ride.seats,
                     !.filledLuggage = pool.filledLuggage + ride.luggage,
                     !.waypoints = updatedWaypoints,
                     !.center = toNumeric(calculatePoolCenter(updatedWaypoints)),
                     !.version = pool.version + 1]

\* processRideMatching after a successful assignment: is the pool now full?
NowFull(existingPool, job) ==
  existingPool.filledSeats + job.seats >= existingPool.maxSeats

\* assignRideToPool, the rest of the transaction and its commit
AssignCommit(w) ==
  /\ procs[w].pc = "assign_locked"
  /\ LET k == procs[w].existingPool.id
         job == procs[w].job
         pool == procs[w].pool
         ride == rides[job.rideId]
     IN /\ poolLock' = [poolLock EXCEPT ![k] = IF @ = w THEN 0 ELSE @]
        /\ IF ride.status = "none"
             THEN /\ result' = [result EXCEPT ![w] = Err("assign", "Ride not found")]
                  /\ procs' = [procs EXCEPT ![w] = [@ EXCEPT !.pc = "create", !.pool = NoPool]]
                  /\ UNCHANGED <<rides, pools, ledger, arrival>>
           ELSE IF ~HasCapacity(pool, ride)
             THEN /\ result' = [result EXCEPT ![w] = Err("assign", CapacityError(pool, ride))]
                  /\ procs' = [procs EXCEPT ![w] = [@ EXCEPT !.pc = "create", !.pool = NoPool]]
                  /\ UNCHANGED <<rides, pools, ledger, arrival>>
           ELSE /\ pools' = [pools EXCEPT ![k] = AssignedPool(@, pool, ride, job.rideId)]
                /\ rides' = [rides EXCEPT ![job.rideId] =
                               [@ EXCEPT !.poolId = k, !.status = "matched"]]
                /\ ledger' = [ledger EXCEPT ![k] =
                               [seats |-> @.seats + ride.seats,
                                luggage |-> @.luggage + ride.luggage]]
                /\ result' = [result EXCEPT ![w] = Ok("assign", 0)]
                /\ procs' = [procs EXCEPT ![w] =
                     IF NowFull(procs[w].existingPool, job)
                       THEN [@ EXCEPT !.pc = "pool_full", !.pool = NoPool]
                       ELSE Idle]
  /\ UNCHANGED <<drivers, queue, nRequests, arrival,
               driverLock, rideLock, txs>>

\* updatePoolStatus(existingPool.id, "driver_assigned"): one UPDATE by id
UpdatePoolStatus(w) ==
  /\ procs[w].pc = "pool_full"
  /\ LET k == procs[w].existingPool.id
     IN /\ RowFree(k, w)
        /\ pools' = [pools EXCEPT ![k].status = "driver_assigned"]
  /\ procs' = [procs EXCEPT ![w] = Idle]
  /\ UNCHANGED <<rides, drivers, queue, result, poolLock, ledger, nRequests, arrival,
               driverLock, rideLock, txs>>

\* ------------------------------------------------ worker: createPoolForRide
\* the rows of the nearest-available-driver query, LIMIT 1 (ties in any order)
NearestDrivers(pickup) ==
  LET avail == {d \in DriverIds : drivers[d].status = "available"}
  IN {d \in avail : \A e \in avail :
        calculateDistance(drivers[d].pos, pickup) <= calculateDistance(drivers[e].pos, pickup)}

\* an error result is only logged by the worker's handler, which then returns:
\* the job is completed, it does not go back to the queue
CreateFindDriver(w) ==
  /\ procs[w].pc = "create"
  /\ LET near == NearestDrivers(procs[w].job.pickup)
     IN IF near = {}
          THEN /\ result' = [result EXCEPT ![w] =
                               Err("create", "No available drivers nearby")]
               /\ procs' = [procs EXCEPT ![w] = Idle]
          ELSE /\ \E d \in near :
                    procs' = [procs EXCEPT ![w].pc = "create_lock", ![w].nearestDriver = d]
               /\ UNCHANGED result
  /\ UNCHANGED <<rides, pools, drivers, queue, poolLock, ledger, nRequests, arrival,
               driverLock, rideLock, txs>>

\* faulty variant: every vehicle is taken to have the default capacity
VehicleCapacityDefault(d) ==
  [maxSeats |-> DefaultCapacity, maxLuggage |-> DefaultCapacity]

\* vehicle?.maxSeats || 4
VehicleCapacity(d) ==
  IF d \in DOMAIN Vehicles
    THEN [maxSeats |-> IF Vehicles[d].maxSeats = 0 THEN DefaultCapacity
                       ELSE Vehicles[d].maxSeats,
          maxLuggage |-> IF Vehicles[d].maxLuggage = 0 THEN DefaultCapacity
                         ELSE Vehicles[d].maxLuggage]
    ELSE [maxSeats |-> DefaultCapacity, maxLuggage |-> DefaultCapacity]

\* faulty variant: the pool is inserted empty, without the ride's demand
NewPoolEmpty(d, cap, rideId, rideData) ==
  LET waypoints == << Waypoint(rideData.pickup, "pickup", rideId),
                      Waypoint(rideData.dropoff, "dropoff", rideId) >>
  IN [driverId |-> d, maxSeats |-> cap.maxSeats, maxLuggage |-> cap.maxLuggage,
      filledSeats |-> 0, filledLuggage |-> 0,
      status |-> "forming", direction |-> rideData.direction,
      waypoints |-> waypoints, center |-> toNumeric(calculatePoolCenter(waypoints)),
      version |-> 0, driverArrivedAt |-> FALSE]

\* the pool row inserted for the initiating ride
NewPool(d, cap, rideId, rideData) ==
  LET waypoints == << Waypoint(rideData.pickup, "pickup", rideId),
                      Waypoint(rideData.dropoff, "dropoff", rideId) >>
  IN [driverId |-> d, maxSeats |-> cap.maxSeats, maxLuggage |-> cap.maxLuggage,
      filledSeats |-> rideData.seats, filledLuggage |-> rideData.luggage,
      status |-> "forming", direction |-> rideData.direction,
      waypoints |-> waypoints, center |-> toNumeric(calculatePoolCenter(waypoints)),
      version |-> 0, driverArrivedAt |-> FALSE]

\* faulty variant: the driver row is left as it was
BindDriverSkipped(d) == drivers

\* UPDATE drivers SET status = 'assigned' WHERE id = d
BindDriver(d) == [drivers EXCEPT ![d].status = "assigned"]

\* faulty variant: the driver row is not checked again under its lock
DriverGoneNever(d) == FALSE

\* !driver || driver.status !== 'available', on the row read FOR UPDATE
DriverGone(d) == drivers[d].status # "available"

\* the driver row is locked and re-read, then the transaction runs to its commit
CreateCommit(w) ==
  /\ procs[w].pc = "create_lock"
  /\ LET d == procs[w].nearestDriver
         job == procs[w].job
         cap == VehicleCapacity(d)
         k == Len(pools) + 1
     IN IF DriverGone(d)
          THEN /\ result' = [result EXCEPT ![w] =
                               Err("create", "Driver no longer available")]
               /\ UNCHANGED <<rides, pools, drivers, poolLock, ledger, arrival>>
        ELSE IF job.seats > cap.maxSeats \/ job.luggage > cap.maxLuggage
          THEN /\ result' = [result EXCEPT ![w] =
                               Err("create", "Ride exceeds vehicle capacity")]
               /\ UNCHANGED <<rides, pools, drivers, poolLock, ledger, arrival>>
        ELSE /\ pools' = Append(pools, NewPool(d, cap, job.rideId, job))
             /\ poolLock' = Append(poolLock, 0)
             /\ ledger' = Append(ledger, [seats |-> job.seats, luggage |-> job.luggage])
             /\ drivers' = BindDriver(d)
             /\ rides' = IF rides[job.rideId].status = "none" THEN rides
                         ELSE [rides EXCEPT ![job.rideId] =
                                 [@ EXCEPT !.poolId = k, !.status = "matched"]]
             /\ result' = [result EXCEPT ![w] = Ok("create", 0)]
  /\ procs' = [procs EXCEPT ![w] = Idle]
  /\ UNCHANGED <<queue, nRequests, arrival,
               driverLock, rideLock, txs>>

\* the queries/rides call that worker w's job is in
CurrentCall(w) ==
  CASE procs[w].pc = "idle" -> "findBestPool"
    [] procs[w].pc \in {"assign", "assign_locked"} -> "assignRideToPool"
    [] procs[w].pc = "pool_full" -> "updatePoolStatus"
    [] procs[w].pc \in {"create", "create_lock"} -> "createPoolForRide"
    [] OTHER -> "none"

\* the job a failing statement belongs to: the one w runs, or the one it takes
\* from the queue when the search itself fails
FailingJob(w) == IF procs[w].pc = "idle" THEN Head(queue) ELSE procs[w].job

\* a store statement of a find-pool job throws (lock timeout, lost
\* connection): the open transaction is rolled back, the catch block of
\* processRideMatching logs the error, and the worker's handler returns
\* {success: true}, which completes the job
StoreFailure(w) ==
  /\ \/ /\ FreeWorker(w)
        /\ queue # <<>>
        /\ Head(queue).name = "find-pool"
        /\ queue' = Tail(queue)
     \/ /\ procs[w].job.name = "find-pool"
        /\ procs[w].pc \in {"assign", "assign_locked", "pool_full", "create",
                            "create_lock"}
        /\ UNCHANGED queue
  /\ poolLock' = [k \in DOMAIN poolLock |-> IF poolLock[k] = w THEN 0 ELSE poolLock[k]]
  /\ result' = [result EXCEPT ![w] = Err(CurrentCall(w), "throws")]
  /\ procs' = [procs EXCEPT ![w] = Idle]
  /\ UNCHANGED <<rides, pools, drivers, ledger, nRequests, arrival,
                 driverLock, rideLock, txs>>

\* ------------------------------------------------ worker: cancelPoolForRide
\* faulty variant: only a completed ride is refused
CancellableUnlessCompleted(ride) == ~(ride.status = "completed")

\* the status check made on the ride row read first
Cancellable(ride) == ~(ride.status = "completed" \/ ride.status = "cancelled")

\* the worker takes the cancel-ride job at the head of the queue;
\* cancelPoolForRide reads the ride row (no transaction, no lock)
StartCancelRide(w) ==
  /\ FreeWorker(w)
  /\ queue # <<>>
  /\ Head(queue).name = "cancel-ride"
  /\ LET job == Head(queue)
         ride == rides[job.rideId]
         me == [Idle EXCEPT !.job = job, !.ride = ride]
     IN IF ride.status = "none"
          THEN /\ result' = [result EXCEPT ![w] = Err("cancel", "Ride not found")]
               /\ procs' = [procs EXCEPT ![w] = Idle]
        ELSE IF ~Cancellable(ride)
          THEN /\ result' = [result EXCEPT ![w] =
                               Err("cancel", "Ride already completed or cancelled")]
               /\ procs' = [procs EXCEPT ![w] = Idle]
        ELSE /\ procs' = [procs EXCEPT ![w] =
                  [me EXCEPT !.pc = IF ride.poolId # 0 THEN "cancel_pool" ELSE "cancel_ride"]]
             /\ UNCHANGED result
  /\ queue' = Tail(queue)
  /\ UNCHANGED <<rides, pools, drivers, poolLock, ledger, nRequests, arrival,
               driverLock, rideLock, txs>>

\* db.select().from(pools).for("update") outside a transaction: the statement
\* waits for the row lock, reads the row and commits, which drops the lock
CancelSelectPool(w) ==
  /\ procs[w].pc = "cancel_pool"
  /\ LET k == procs[w].ride.poolId
     IN /\ RowFree(k, w)
        /\ procs' = [procs EXCEPT
             ![w].pool = pools[k],
             ![w].pc = IF procs[w].ride.status = "matched" THEN "cancel_release"
                       ELSE "cancel_ride"]
  /\ UNCHANGED <<rides, pools, drivers, queue, result, poolLock, ledger, nRequests, arrival,
               driverLock, rideLock, txs>>

\* the pool row written by the release: counts computed from the row read before
ReleasedPool(current, pool, ride) ==
  [current EXCEPT !.filledSeats = pool.filledSeats - ride.seats,
                  !.filledLuggage = pool.filledLuggage - ride.luggage]

\* db.update(pools).set({filledSeats: pool.filledSeats - ride.seats, ...})
CancelReleaseCapacity(w) ==
  /\ procs[w].pc = "cancel_release"
  /\ LET k == procs[w].ride.poolId
         ride == procs[w].ride
     IN /\ RowFree(k, w)
        /\ pools' = [pools EXCEPT ![k] = ReleasedPool(@, procs[w].pool, ride)]
        /\ ledger' = [ledger EXCEPT ![k] =
                        [seats |-> @.seats - ride.seats,
                         luggage |-> @.luggage - ride.luggage]]
  /\ procs' = [procs EXCEPT ![w].pc = "cancel_ride"]
  /\ UNCHANGED <<rides, drivers, queue, result, poolLock, nRequests, arrival,
               driverLock, rideLock, txs>>

\* faulty variant: the fee is charged whatever the pool's state
cancellationFeeAlways(pool) == CancellationFee

\* pool.status === 'driver_arrived' || pool.driverArrivedAt  ->  5.00
cancellationFee(pool) ==
  IF pool.status = "driver_arrived" \/ pool.driverArrivedAt THEN CancellationFee ELSE 0

\* db.update(rideRequests).set({status: 'cancelled', ...}) and the return
CancelUpdateRide(w) ==
  /\ procs[w].pc = "cancel_ride"
  /\ LET r == procs[w].job.rideId
     IN /\ rides' = [rides EXCEPT ![r].status = "cancelled"]
        /\ result' = [result EXCEPT ![w] =
                        Ok("cancel", cancellationFee(procs[w].pool))]
  /\ procs' = [procs EXCEPT ![w] = Idle]
  /\ UNCHANGED <<pools, drivers, queue, poolLock, ledger, nRequests, arrival,
               driverLock, rideLock, txs>>

\* ---------------------------------------------------------- driver side
\* faulty variant: the UPDATE has no WHERE clause
CascadeArrivedEveryRide(k) ==
  [r \in RideIds |-> IF rides[r].status # "none"
                       THEN [rides[r] EXCEPT !.status = "driver_arrived"]
                       ELSE rides[r]]

\* UPDATE ride_requests SET status = 'driver_arrived' WHERE pool_id = k
CascadeArrived(k) ==
  [r \in RideIds |-> IF rides[r].status # "none" /\ rides[r].poolId = k
                       THEN [rides[r] EXCEPT !.status = "driver_arrived"]
                       ELSE rides[r]]

\* faulty variant: the caller is not compared with the pool's driver
ArrivalErrorAnyDriver(k, d) ==
  IF k \notin PoolIds THEN "Pool not found"
  ELSE IF pools[k].status # "forming" THEN "Pool is not in forming state"
  ELSE ""

\* the three checks of driverArrived on the locked pool row; "" when all pass
ArrivalError(k, d) ==
  IF k \notin PoolIds THEN "Pool not found"
  ELSE IF pools[k].driverId # d THEN "Not authorized to lock this pool"
  ELSE IF pools[k].status # "forming" THEN "Pool is not in forming state"
  ELSE ""

\* POST /api/drivers/arrive/{poolId}: driverArrived(poolId, driverId), one
\* short transaction on the pool row; arrival keeps what it returns
DriverArrived(k, d) ==
  /\ nRequests < MaxRequests
  /\ nRequests' = nRequests + 1
  /\ k \in PoolIds => poolLock[k] = 0
  /\ arrival' = [poolId |-> k, driverId |-> d, error |-> ArrivalError(k, d)]
  /\ IF ArrivalError(k, d) = ""
       THEN /\ pools' = [pools EXCEPT ![k].status = "driver_arrived",
                                      ![k].driverArrivedAt = TRUE]
            /\ rides' = CascadeArrived(k)
       ELSE UNCHANGED <<rides, pools>>
  /\ UNCHANGED <<drivers, queue, procs, result, poolLock, ledger,
               driverLock, rideLock, txs>>

\* assignDriverToPool(poolId, driverId): driver row, then pool row, one transaction
AssignDriverToPool(k, d) ==
  /\ k \in PoolIds => poolLock[k] = 0
  /\ IF /\ drivers[d].status = "available"
        /\ k \in PoolIds
        /\ pools[k].status = "forming"
        /\ pools[k].driverId = 0
       THEN /\ pools' = [pools EXCEPT ![k].driverId = d, ![k].status = "driver_assigned"]
            /\ drivers' = BindDriver(d)
            /\ rides' = CascadeArrived(k)
       ELSE UNCHANGED <<rides, pools, drivers>>
  /\ UNCHANGED <<queue, procs, result, poolLock, ledger, nRequests, arrival,
               driverLock, rideLock, txs>>

\* ------------------------------------ the calls, statement by statement
\* Each call of queries/rides runs for one caller; a db.transaction keeps the
\* row locks of its statements until it returns, a call outside a transaction
\* keeps none.  A statement that needs a locked row waits.

\* faulty variant: the locks of a finished transaction stay
ReleasedNone(locks, t) == locks

\* the row locks after transaction t has committed or rolled back
Released(locks, t) ==
  [x \in DOMAIN locks |-> IF locks[x] = t THEN 0 ELSE locks[x]]

\* the callers are interchangeable: a new call takes the first free slot
FreeTx(t) ==
  /\ txs[t].pc = "idle"
  /\ \A u \in TxIds : u < t => txs[u].pc # "idle"

\* the first statement of each call
FirstStatement(op) ==
  CASE op = "assignRideToPool" -> "select_pool"
    [] op = "createPoolForRide" -> "select_nearest"
    [] op = "assignDriverToPool" -> "select_driver"
    [] op = "driverArrived" -> "select_pool"
    [] op = "cancelPoolForRide" -> "select_ride"

\* the rideData a find-pool job carries for ride r
RideData(r) ==
  [rideId |-> r, pickup |-> rides[r].pickup, dropoff |-> rides[r].dropoff,
   seats |-> rides[r].seats, luggage |-> rides[r].luggage,
   direction |-> detectDirection(rides[r].pickup, rides[r].dropoff)]

\* the rows of UPDATE ride_requests ... WHERE pool_id = k
RidesOfPool(k) == {r \in RideIds : rides[r].status # "none" /\ rides[r].poolId = k}

\* a worker or a request handler calls op with these arguments
BeginTx(t, op, k, d, r) ==
  /\ nRequests < MaxRequests
  /\ nRequests' = nRequests + 1
  /\ FreeTx(t)
  /\ txs' = [txs EXCEPT ![t] =
        [NoTx EXCEPT !.op = op, !.pc = FirstStatement(op), !.poolId = k,
                     !.driverId = d, !.rideId = r]]
  /\ UNCHANGED <<rides, pools, drivers, queue, procs, result, poolLock, ledger,
                 arrival, driverLock, rideLock>>

\* t's transaction ends: its driver and ride row locks go, its slot is free
CloseTx(t) ==
  /\ driverLock' = Released(driverLock, t)
  /\ rideLock' = Released(rideLock, t)
  /\ txs' = [txs EXCEPT ![t] = NoTx]

\* assignRideToPool: SELECT pool FOR UPDATE, SELECT ride, the capacity checks
ArtSelectPool(t) ==
  /\ txs[t].op = "assignRideToPool"
  /\ txs[t].pc = "select_pool"
  /\ LET k == txs[t].poolId
         ride == rides[txs[t].rideId]
     IN /\ poolLock[k] = 0
        /\ IF ride.status = "none" \/ ~HasCapacity(pools[k], ride)
             THEN /\ txs' = [txs EXCEPT ![t] = NoTx]
                  /\ UNCHANGED poolLock
             ELSE /\ txs' = [txs EXCEPT ![t].pc = "update_ride",
                                        ![t].pool = pools[k], ![t].ride = ride]
                  /\ poolLock' = [poolLock EXCEPT ![k] = t]
  /\ UNCHANGED <<rides, pools, drivers, queue, procs, result, ledger, nRequests,
                 arrival, driverLock, rideLock>>

\* assignRideToPool: UPDATE pools, UPDATE ride_requests (waits for the ride
\* row), commit
ArtUpdateRide(t) ==
  /\ txs[t].op = "assignRideToPool"
  /\ txs[t].pc = "update_ride"
  /\ LET k == txs[t].poolId
         r == txs[t].rideId
     IN /\ rideLock[r] = 0
        /\ pools' = [pools EXCEPT ![k] = AssignedPool(@, txs[t].pool, txs[t].ride, r)]
        /\ rides' = [rides EXCEPT ![r] = [@ EXCEPT !.poolId = k, !.status = "matched"]]
        /\ ledger' = [ledger EXCEPT ![k] =
                        [seats |-> @.seats + txs[t].ride.seats,
                         luggage |-> @.luggage + txs[t].ride.luggage]]
  /\ poolLock' = Released(poolLock, t)
  /\ CloseTx(t)
  /\ UNCHANGED <<drivers, queue, procs, result, nRequests, arrival>>

\* createPoolForRide: the nearest-available-driver query
CprSelectNearest(t) ==
  /\ txs[t].op = "createPoolForRide"
  /\ txs[t].pc = "select_nearest"
  /\ LET near == NearestDrivers(rides[txs[t].rideId].pickup)
     IN IF near = {}
          THEN txs' = [txs EXCEPT ![t] = NoTx]
          ELSE \E d \in near :
                 txs' = [txs EXCEPT ![t].pc = "select_driver", ![t].driverId = d]
  /\ UNCHANGED <<rides, pools, drivers, queue, procs, result, poolLock, ledger,
                 nRequests, arrival, driverLock, rideLock>>

\* createPoolForRide: SELECT driver FOR UPDATE, the re-check, the vehicle
CprSelectDriver(t) ==
  /\ txs[t].op = "createPoolForRide"
  /\ txs[t].pc = "select_driver"
  /\ LET d == txs[t].driverId
         job == RideData(txs[t].rideId)
         cap == VehicleCapacity(d)
     IN /\ driverLock[d] = 0
        /\ IF \/ DriverGone(d)
              \/ job.seats > cap.maxSeats
              \/ job.luggage > cap.maxLuggage
             THEN /\ txs' = [txs EXCEPT ![t] = NoTx]
                  /\ UNCHANGED driverLock
             ELSE /\ txs' = [txs EXCEPT ![t].pc = "update_ride"]
                  /\ driverLock' = [driverLock EXCEPT ![d] = t]
  /\ UNCHANGED <<rides, pools, drivers, queue, procs, result, poolLock, ledger,
                 nRequests, arrival, rideLock>>

\* createPoolForRide: INSERT pool, UPDATE driver, UPDATE ride_requests (waits
\* for the ride row), commit
CprUpdateRide(t) ==
  /\ txs[t].op = "createPoolForRide"
  /\ txs[t].pc = "update_ride"
  /\ LET d == txs[t].driverId
         r == txs[t].rideId
     IN /\ rideLock[r] = 0
        /\ pools' = Append(pools, NewPool(d, VehicleCapacity(d), r, RideData(r)))
        /\ poolLock' = Append(Released(poolLock, t), 0)
        /\ ledger' = Append(ledger, [seats |-> rides[r].seats,
                                     luggage |-> rides[r].luggage])
        /\ drivers' = BindDriver(d)
        /\ rides' = [rides EXCEPT ![r] =
                       [@ EXCEPT !.poolId = Len(pools) + 1, !.status = "matched"]]
  /\ CloseTx(t)
  /\ UNCHANGED <<queue, procs, result, nRequests, arrival>>

\* assignDriverToPool: SELECT driver FOR UPDATE and its check
AdpSelectDriver(t) ==
  /\ txs[t].op = "assignDriverToPool"
  /\ txs[t].pc = "select_driver"
  /\ LET d == txs[t].driverId
     IN /\ driverLock[d] = 0
        /\ IF drivers[d].status # "available"
             THEN /\ txs' = [txs EXCEPT ![t] = NoTx]
                  /\ UNCHANGED driverLock
             ELSE /\ txs' = [txs EXCEPT ![t].pc = "select_pool"]
                  /\ driverLock' = [driverLock EXCEPT ![d] = t]
  /\ UNCHANGED <<rides, pools, drivers, queue, procs, result, poolLock, ledger,
                 nRequests, arrival, rideLock>>

\* assignDriverToPool: SELECT pool FOR UPDATE and its checks; UPDATE pools and
\* UPDATE drivers touch rows already locked
AdpSelectPool(t) ==
  /\ txs[t].op = "assignDriverToPool"
  /\ txs[t].pc = "select_pool"
  /\ LET k == txs[t].poolId
     IN /\ poolLock[k] = 0
        /\ IF pools[k].status # "forming" \/ pools[k].driverId # 0
             THEN /\ CloseTx(t)
                  /\ UNCHANGED poolLock
             ELSE /\ txs' = [txs EXCEPT ![t].pc = "update_rides",
                                        ![t].toLock = RidesOfPool(k)]
                  /\ poolLock' = [poolLock EXCEPT ![k] = t]
                  /\ UNCHANGED <<driverLock, rideLock>>
  /\ UNCHANGED <<rides, pools, drivers, queue, procs, result, ledger, nRequests,
                 arrival>>

\* UPDATE ride_requests ... WHERE pool_id = k locks its rows one by one, in
\* the order of the scan; a row that has left the pool meanwhile is passed over
LockRideRow(t) ==
  /\ txs[t].pc = "update_rides"
  /\ \E r \in txs[t].toLock :
       /\ rideLock[r] = 0
       /\ rideLock' = IF rides[r].poolId = txs[t].poolId
                        THEN [rideLock EXCEPT ![r] = t]
                        ELSE rideLock
       /\ txs' = [txs EXCEPT ![t].toLock = @ \ {r}]
  /\ UNCHANGED <<rides, pools, drivers, queue, procs, result, poolLock, ledger,
                 nRequests, arrival, driverLock>>

\* the rows that UPDATE of transaction t writes
CascadeLocked(t) ==
  [r \in RideIds |-> IF rideLock[r] = t
                       THEN [rides[r] EXCEPT !.status = "driver_arrived"]
                       ELSE rides[r]]

\* assignDriverToPool: the three UPDATEs take effect, commit
AdpCommit(t) ==
  /\ txs[t].op = "assignDriverToPool"
  /\ txs[t].pc = "update_rides"
  /\ txs[t].toLock = {}
  /\ pools' = [pools EXCEPT ![txs[t].poolId].driverId = txs[t].driverId,
                            ![txs[t].poolId].status = "driver_assigned"]
  /\ drivers' = BindDriver(txs[t].driverId)
  /\ rides' = CascadeLocked(t)
  /\ poolLock' = Released(poolLock, t)
  /\ CloseTx(t)
  /\ UNCHANGED <<queue, procs, result, ledger, nRequests, arrival>>

\* driverArrived: SELECT pool FOR UPDATE and the three checks
DaSelectPool(t) ==
  /\ txs[t].op = "driverArrived"
  /\ txs[t].pc = "select_pool"
  /\ LET k == txs[t].poolId
         d == txs[t].driverId
     IN /\ poolLock[k] = 0
        /\ arrival' = [poolId |-> k, driverId |-> d, error |-> ArrivalError(k, d)]
        /\ IF ArrivalError(k, d) # ""
             THEN /\ txs' = [txs EXCEPT ![t] = NoTx]
                  /\ UNCHANGED poolLock
             ELSE /\ txs' = [txs EXCEPT ![t].pc = "update_rides",
                                        ![t].toLock = RidesOfPool(k)]
                  /\ poolLock' = [poolLock EXCEPT ![k] = t]
  /\ UNCHANGED <<rides, pools, drivers, queue, procs, result, ledger, nRequests,
                 driverLock, rideLock>>

\* driverArrived: the two UPDATEs take effect, commit
DaCommit(t) ==
  /\ txs[t].op = "driverArrived"
  /\ txs[t].pc = "update_rides"
  /\ txs[t].toLock = {}
  /\ pools' = [pools EXCEPT ![txs[t].poolId].status = "driver_arrived",
                            ![txs[t].poolId].driverArrivedAt = TRUE]
  /\ rides' = CascadeLocked(t)
  /\ poolLock' = Released(poolLock, t)
  /\ CloseTx(t)
  /\ UNCHANGED <<drivers, queue, procs, result, ledger, nRequests, arrival>>

\* cancelPoolForRide: findFirst on the ride and the status check
CanSelectRide(t) ==
  /\ txs[t].op = "cancelPoolForRide"
  /\ txs[t].pc = "select_ride"
  /\ LET ride == rides[txs[t].rideId]
     IN txs' = [txs EXCEPT ![t] =
          IF ride.status = "none" \/ ~Cancellable(ride) THEN NoTx
          ELSE [@ EXCEPT !.ride = ride,
                         !.pc = IF ride.poolId # 0 THEN "select_pool"
                                ELSE "update_ride"]]
  /\ UNCHANGED <<rides, pools, drivers, queue, procs, result, poolLock, ledger,
                 nRequests, arrival, driverLock, rideLock>>

\* cancelPoolForRide: SELECT pool FOR UPDATE, a statement of its own
CanSelectPool(t) ==
  /\ txs[t].op = "cancelPoolForRide"
  /\ txs[t].pc = "select_pool"
  /\ LET k == txs[t].ride.poolId
     IN /\ poolLock[k] = 0
        /\ txs' = [txs EXCEPT
             ![t].pool = pools[k],
             ![t].pc = IF txs[t].ride.status = "matched" THEN "update_pool"
                       ELSE "update_ride"]
  /\ UNCHANGED <<rides, pools, drivers, queue, procs, result, poolLock, ledger,
                 nRequests, arrival, driverLock, rideLock>>

\* cancelPoolForRide: UPDATE pools, a statement of its own
CanUpdatePool(t) ==
  /\ txs[t].op = "cancelPoolForRide"
  /\ txs[t].pc = "update_pool"
  /\ LET k == txs[t].ride.poolId
     IN /\ poolLock[k] = 0
        /\ pools' = [pools EXCEPT ![k] = ReleasedPool(@, txs[t].pool, txs[t].ride)]
        /\ ledger' = [ledger EXCEPT ![k] =
                        [seats |-> @.seats - txs[t].ride.seats,
                         luggage |-> @.luggage - txs[t].ride.luggage]]
  /\ txs' = [txs EXCEPT ![t].pc = "update_ride"]
  /\ UNCHANGED <<rides, drivers, queue, procs, result, poolLock, nRequests,
                 arrival, driverLock, rideLock>>

\* cancelPoolForRide: UPDATE ride_requests, a statement of its own, and return
CanUpdateRide(t) ==
  /\ txs[t].op = "cancelPoolForRide"
  /\ txs[t].pc = "update_ride"
  /\ rideLock[txs[t].rideId] = 0
  /\ rides' = [rides EXCEPT ![txs[t].rideId].status = "cancelled"]
  /\ txs' = [txs EXCEPT ![t] = NoTx]
  /\ UNCHANGED <<pools, drivers, queue, procs, result, poolLock, ledger,
                 nRequests, arrival, driverLock, rideLock>>

\* the next statement of call t
TxStep(t) ==
  \/ ArtSelectPool(t) \/ ArtUpdateRide(t)
  \/ CprSelectNearest(t) \/ CprSelectDriver(t) \/ CprUpdateRide(t)
  \/ AdpSelectDriver(t) \/ AdpSelectPool(t) \/ AdpCommit(t)
  \/ DaSelectPool(t) \/ DaCommit(t)
  \/ LockRideRow(t)
  \/ CanSelectRide(t) \/ CanSelectPool(t) \/ CanUpdatePool(t) \/ CanUpdateRide(t)

\* ------------------------------------------------------------ the system
Init ==
  /\ rides = [r \in RideIds |-> NoRide]
  /\ pools = <<>>
  /\ drivers = [d \in DriverIds |-> [status |-> "available", pos |-> DriverHome[d]]]
  /\ queue = <<>>
  /\ procs = [w \in Workers |-> Idle]
  /\ result = [w \in Workers |-> NoResult]
  /\ poolLock = <<>>
  /\ ledger = <<>>
  /\ nRequests = 0
  /\ arrival = [poolId |-> 0, driverId |-> 0, error |-> ""]
  /\ driverLock = [d \in DriverIds |-> 0]
  /\ rideLock = [r \in RideIds |-> 0]
  /\ txs = [t \in TxIds |-> NoTx]

Next ==
  \/ \E r \in RequestIds, c \in CityLocs, s \in 1..MaxSeatsReq, l \in 0..MaxLuggageReq :
       \/ SubmitRide(r, c, AIRPORT, s, l)
       \/ SubmitRide(r, AIRPORT, c, s, l)
  \/ \E r \in RequestIds : PostCancel(r)
  \/ \E r \in RequestIds : EnqueueCancelRide(r)
  \/ \E w \in Workers : StartFindPool(w)
  \/ \E w \in Workers : AssignLock(w)
  \/ \E w \in Workers : AssignCommit(w)
  \/ \E w \in Workers : UpdatePoolStatus(w)
  \/ \E w \in Workers : CreateFindDriver(w)
  \/ \E w \in Workers : CreateCommit(w)
  \/ \E w \in Workers : StartCancelRide(w)
  \/ \E w \in Workers : CancelSelectPool(w)
  \/ \E w \in Workers : CancelReleaseCapacity(w)
  \/ \E w \in Workers : CancelUpdateRide(w)
  \/ \E k \in 1..(Len(pools) + 1), d \in DriverIds : DriverArrived(k, d)
  \/ \E k \in PoolIds, d \in DriverIds : AssignDriverToPool(k, d)

Spec == Init /\ [][Next]_vars

\* the matching path alone, single-seat rides without luggage submitted with
\* the default maxDetourKm, from and to city points on both sides of the airport
NextDetour ==
  \/ \E r \in RideIds, c \in DetourLocs :
       \/ SubmitRide(r, c, AIRPORT, 1, 0)
       \/ SubmitRide(r, AIRPORT, c, 1, 0)
  \/ \E w \in Workers : StartFindPool(w)
  \/ \E w \in Workers : AssignLock(w)
  \/ \E w \in Workers : AssignCommit(w)
  \/ \E w \in Workers : UpdatePoolStatus(w)
  \/ \E w \in Workers : CreateFindDriver(w)
  \/ \E w \in Workers : CreateCommit(w)

SpecDetour == Init /\ [][NextDetour]_vars

\* two rides submitted together have each got a pool of their own: the state
\* in which later rides compete for the seat left in the smaller car while
\* the other pool has room; nRequests counts the requests made from here on
InitRace ==
  LET trip(r) == [rideId |-> r, pickup |-> AIRPORT + 4, dropoff |-> AIRPORT,
                  seats |-> 1, luggage |-> 0, direction |-> "city_to_airport"]
  IN /\ rides = [r \in RideIds |->
                   IF r <= 2 THEN [status |-> "matched", poolId |-> r, seats |-> 1,
                                   luggage |-> 0, pickup |-> AIRPORT + 4,
                                   dropoff |-> AIRPORT]
                   ELSE NoRide]
     /\ pools = << NewPool(1, VehicleCapacity(1), 1, trip(1)),
                   NewPool(2, VehicleCapacity(2), 2, trip(2)) >>
     /\ drivers = [d \in DriverIds |-> [status |-> "assigned", pos |-> DriverHome[d]]]
     /\ queue = <<>>
     /\ procs = [w \in Workers |-> Idle]
     /\ result = [w \in Workers |-> Ok("create", 0)]
     /\ poolLock = <<0, 0>>
     /\ ledger = << [seats |-> 1, luggage |-> 0], [seats |-> 1, luggage |-> 0] >>
     /\ nRequests = 0
     /\ arrival = [poolId |-> 0, driverId |-> 0, error |-> ""]
     /\ driverLock = [d \in DriverIds |-> 0]
     /\ rideLock = [r \in RideIds |-> 0]
     /\ txs = [t \in TxIds |-> NoTx]

\* the matching path from that state on; no driver is available, so
\* createPoolForRide ends at its driver query
NextRace ==
  \/ \E r \in RideIds, c \in CityLocs, s \in 1..MaxSeatsReq, l \in 0..MaxLuggageReq :
       SubmitRide(r, c, AIRPORT, s, l)
  \/ \E w \in Workers : StartFindPool(w)
  \/ \E w \in Workers : AssignLock(w)
  \/ \E w \in Workers : AssignCommit(w)
  \/ \E w \in Workers : UpdatePoolStatus(w)
  \/ \E w \in Workers : CreateFindDriver(w)

SpecRace == InitRace /\ [][NextRace]_vars

\* the routes of at most two waypoints, well formed or not
SmallRoutes ==
  LET W == {Waypoint(p, t, 0) : p \in {AIRPORT, AIRPORT + 4}, t \in {"pickup", "dropoff"}}
  IN {<<>>} \cup {<<a>> : a \in W} \cup {<<a, b>> : a \in W, b \in W}

\* one forming pool with a driver has been stored through createPool, which
\* takes any row: its route may be empty or lack the anchor of its direction
InitCorrupt ==
  /\ rides = [r \in RideIds |-> NoRide]
  /\ \E wps \in SmallRoutes, dir \in {"city_to_airport", "airport_to_city"} :
       pools = << [driverId |-> 1, maxSeats |-> VehicleCapacity(1).maxSeats,
                   maxLuggage |-> VehicleCapacity(1).maxLuggage,
                   filledSeats |-> 0, filledLuggage |-> 0,
                   status |-> "forming", direction |-> dir,
                   waypoints |-> wps, center |-> [num |-> AIRPORT + 2, den |-> 1],
                   version |-> 0, driverArrivedAt |-> FALSE] >>
  /\ drivers = [d \in DriverIds |-> [status |-> IF d = 1 THEN "assigned" ELSE "available",
                                     pos |-> DriverHome[d]]]
  /\ queue = <<>>
  /\ procs = [w \in Workers |-> Idle]
  /\ result = [w \in Workers |-> NoResult]
  /\ poolLock = <<0>>
  /\ ledger = << [seats |-> 0, luggage |-> 0] >>
  /\ nRequests = 0
  /\ arrival = [poolId |-> 0, driverId |-> 0, error |-> ""]
  /\ driverLock = [d \in DriverIds |-> 0]
  /\ rideLock = [r \in RideIds |-> 0]
  /\ txs = [t \in TxIds |-> NoTx]

SpecCorrupt == InitCorrupt /\ [][NextDetour]_vars

\* city points near and far from the airport: a trip to the far one has its
\* midpoint more than the search radius away from the airport
AnchorLocs == {AIRPORT + 4, AIRPORT + 12}

\* the matching path alone, single-seat rides to and from those points
NextAnchor ==
  \/ \E r \in RideIds, c \in AnchorLocs :
       \/ SubmitRide(r, c, AIRPORT, 1, 0)
       \/ SubmitRide(r, AIRPORT, c, 1, 0)
  \/ \E w \in Workers : StartFindPool(w)
  \/ \E w \in Workers : AssignLock(w)
  \/ \E w \in Workers : AssignCommit(w)
  \/ \E w \in Workers : UpdatePoolStatus(w)
  \/ \E w \in Workers : CreateFindDriver(w)
  \/ \E w \in Workers : CreateCommit(w)

SpecAnchor == Init /\ [][NextAnchor]_vars

\* the calls followed statement by statement, from the state in which ride 1
\* has got pool 1 with driver 1, ride 2 is pending, driver 2 is available and
\* a pool without driver has been stored through createPool
InitLocks ==
  LET trip(r) == [rideId |-> r, pickup |-> AIRPORT + 4, dropoff |-> AIRPORT,
                  seats |-> 1, luggage |-> 0, direction |-> "city_to_airport"]
  IN /\ rides = [r \in RideIds |->
                   IF r = 1 THEN [status |-> "matched", poolId |-> 1, seats |-> 1,
                                  luggage |-> 0, pickup |-> AIRPORT + 4,
                                  dropoff |-> AIRPORT]
                   ELSE IF r = 2 THEN [status |-> "pending", poolId |-> 0, seats |-> 1,
                                       luggage |-> 0, pickup |-> AIRPORT + 4,
                                       dropoff |-> AIRPORT]
                   ELSE NoRide]
     /\ pools = << NewPool(1, VehicleCapacity(1), 1, trip(1)),
                   [NoPool EXCEPT !.maxSeats = DefaultCapacity,
                                  !.maxLuggage = DefaultCapacity,
                                  !.status = "forming",
                                  !.direction = "city_to_airport"] >>
     /\ drivers = [d \in DriverIds |-> [status |-> IF d = 1 THEN "assigned" ELSE "available",
                                        pos |-> DriverHome[d]]]
     /\ queue = <<>>
     /\ procs = [w \in Workers |-> Idle]
     /\ result = [w \in Workers |-> NoResult]
     /\ poolLock = <<0, 0>>
     /\ ledger = << [seats |-> 1, luggage |-> 0], [seats |-> 0, luggage |-> 0] >>
     /\ nRequests = 0
     /\ arrival = [poolId |-> 0, driverId |-> 0, error |-> ""]
     /\ driverLock = [d \in DriverIds |-> 0]
     /\ rideLock = [r \in RideIds |-> 0]
     /\ txs = [t \in TxIds |-> NoTx]

NextLocks ==
  \/ \E t \in TxIds, k \in PoolIds, r \in RideIds :
       rides[r].status # "none" /\ BeginTx(t, "assignRideToPool", k, 0, r)
  \/ \E t \in TxIds, r \in RideIds :
       rides[r].status # "none" /\ BeginTx(t, "createPoolForRide", 0, 0, r)
  \/ \E t \in TxIds, k \in PoolIds, d \in DriverIds :
       BeginTx(t, "assignDriverToPool", k, d, 0)
  \/ \E t \in TxIds, k \in PoolIds, d \in DriverIds :
       BeginTx(t, "driverArrived", k, d, 0)
  \/ \E t \in TxIds, r \in RideIds :
       rides[r].status # "none" /\ BeginTx(t, "cancelPoolForRide", 0, 0, r)
  \/ \E t \in TxIds : ArtSelectPool(t)
  \/ \E t \in TxIds : ArtUpdateRide(t)
  \/ \E t \in TxIds : CprSelectNearest(t)
  \/ \E t \in TxIds : CprSelectDriver(t)
  \/ \E t \in TxIds : CprUpdateRide(t)
  \/ \E t \in TxIds : AdpSelectDriver(t)
  \/ \E t \in TxIds : AdpSelectPool(t)
  \/ \E t \in TxIds : AdpCommit(t)
  \/ \E t \in TxIds : DaSelectPool(t)
  \/ \E t \in TxIds : DaCommit(t)
  \/ \E t \in TxIds : LockRideRow(t)
  \/ \E t \in TxIds : CanSelectRide(t)
  \/ \E t \in TxIds : CanSelectPool(t)
  \/ \E t \in TxIds : CanUpdatePool(t)
  \/ \E t \in TxIds : CanUpdateRide(t)

\* a call that has started goes on to its next statement whenever that
\* statement does not have to wait
SpecLocks == InitLocks /\ [][NextLocks]_vars /\ \A t \in TxIds : WF_vars(TxStep(t))

\* the matching path with store failures: any statement of a job may throw
NextFailure ==
  \/ \E r \in RequestIds, c \in CityLocs :
       \/ SubmitRide(r, c, AIRPORT, 1, 0)
       \/ SubmitRide(r, AIRPORT, c, 1, 0)
  \/ \E w \in Workers : StartFindPool(w)
  \/ \E w \in Workers : AssignLock(w)
  \/ \E w \in Workers : AssignCommit(w)
  \/ \E w \in Workers : UpdatePoolStatus(w)
  \/ \E w \in Workers : CreateFindDriver(w)
  \/ \E w \in Workers : CreateCommit(w)
  \/ \E w \in Workers : StoreFailure(w)

SpecFailure == Init /\ [][NextFailure]_vars

\* ---------------------------------------------------------- properties
\* worker w takes the step that ends its assignRideToPool call
AssignReturns(w) ==
  /\ procs[w].pc = "assign_locked"
  /\ procs'[w].pc # "assign_locked"

\* the ride fits what is committed in the pool row
FitsCommitted(k, r) ==
  /\ rides[r].status # "none"
  /\ pools[k].filledSeats + rides[r].seats <= pools[k].maxSeats
  /\ pools[k].filledLuggage + rides[r].luggage <= pools[k].maxLuggage

\* C1: in every reachable state every pool has filledSeats <= maxSeats and
\* filledLuggage <= maxLuggage, whatever the interleaving of dispatch attempts,
\* driver arrivals and cancellations
C1_CapacityNeverExceeded ==
  \A k \in PoolIds :
    /\ pools[k].filledSeats <= pools[k].maxSeats
    /\ pools[k].filledLuggage <= pools[k].maxLuggage

\* a pool filled to its last seat by a second ride, and a third ride, which
\* findBestPool had matched to it, refused by assignRideToPool
C1_FullPoolRefuses ==
  \E k \in PoolIds, w \in Workers :
    /\ pools[k].filledSeats = pools[k].maxSeats
    /\ Len(pools[k].waypoints) > 2
    /\ procs[w].pc = "create"
    /\ procs[w].existingPool.id = k
    /\ result[w] = Err("assign", "Not enough seats")

\* C2: of two assignRideToPool calls that run concurrently on one pool, each
\* decides on the committed row: a ride that fits is admitted and the counts
\* grow by exactly its demand; a ride that no longer fits gets a failure result
\* and neither the pool nor any ride changes.  So of two rides that fit one by
\* one but not together exactly one is admitted, and the other stays pending
C2_OneAdmissionPerRace ==
  [][\A w \in Workers : AssignReturns(w) =>
       LET k == procs[w].existingPool.id
           r == procs[w].job.rideId
       IN IF FitsCommitted(k, r)
            THEN /\ result'[w] = Ok("assign", 0)
                 /\ pools'[k].filledSeats = pools[k].filledSeats + rides[r].seats
                 /\ pools'[k].filledLuggage = pools[k].filledLuggage + rides[r].luggage
                 /\ rides'[r].poolId = k
                 /\ rides'[r].status = "matched"
            ELSE /\ ~result'[w].ok
                 /\ result'[w].op = "assign"
                 /\ pools' = pools
                 /\ rides' = rides]_vars

\* two rides were matched to pool k while each fitted; one call has returned
\* success and holds the pool's last seats, the other has returned the failure
\* and its ride is still pending with no pool
C2_RaceDecided ==
  \E k \in PoolIds, w \in Workers, v \in Workers, a \in RideIds :
    /\ w # v
    /\ result[w] = Ok("assign", 0)
    /\ rides[a].poolId = k
    /\ rides[a].status = "matched"
    /\ pools[k].waypoints[Len(pools[k].waypoints)].rideRequestId = a
    /\ procs[v].pc = "create"
    /\ procs[v].existingPool.id = k
    /\ result[v] = Err("assign", "Not enough seats")
    /\ procs[v].existingPool.filledSeats + procs[v].job.seats <= pools[k].maxSeats
    /\ pools[k].filledSeats = procs[v].existingPool.filledSeats + rides[a].seats
    /\ rides[procs[v].job.rideId].status = "pending"
    /\ rides[procs[v].job.rideId].poolId = 0

\* C3: assignRideToPool on a pool that is no longer forming is rejected and
\* leaves pool and ride unchanged, also when the driver arrived after
\* findBestPool had read the pool as forming
C3_ClosedPoolRejectsAssign ==
  [][\A w \in Workers :
       (AssignReturns(w) /\ pools[procs[w].existingPool.id].status # "forming") =>
         /\ ~result'[w].ok
         /\ pools' = pools
         /\ rides' = rides]_vars

\* C4: once a ride's poolId is set no step sets it to a different pool; it can
\* only become null
C4_PoolIdNeverReassigned ==
  [][\A r \in RideIds :
       rides[r].poolId # 0 => rides'[r].poolId \in {rides[r].poolId, 0}]_vars

\* worker w takes a step of a find-pool job
DispatchStep(w) ==
  /\ procs[w].job.name = "find-pool"
  /\ procs'[w] # procs[w]

\* C5: a dispatch job that runs for a ride that is matched, driver_arrived,
\* cancelled or completed changes no ride, pool or driver and creates no pool
C5_StaleDispatchIsNoOp ==
  [][\A w \in Workers :
       (/\ DispatchStep(w)
        /\ rides[procs[w].job.rideId].status
             \in {"matched", "driver_arrived", "cancelled", "completed"}) =>
         /\ rides' = rides
         /\ pools' = pools
         /\ drivers' = drivers]_vars

\* C6: in every reachable state a driver that is the driverId of a pool that
\* is not completed or cancelled has status assigned or busy
C6_BoundDriverIsAssigned ==
  \A k \in PoolIds :
    (pools[k].driverId # 0 /\ pools[k].status \notin {"completed", "cancelled"}) =>
      drivers[pools[k].driverId].status \in {"assigned", "busy"}

\* a forming pool whose driver is assigned, after a second createPoolForRide
\* that had selected the same driver found it taken
C6_DriverTaken ==
  \E k \in PoolIds, w \in Workers :
    /\ pools[k].status = "forming"
    /\ drivers[pools[k].driverId].status = "assigned"
    /\ procs[w].pc = "idle"
    /\ result[w] = Err("create", "Driver no longer available")

\* the direction of a ride: that of its pickup and dropoff
RideDirection(r) == detectDirection(rides[r].pickup, rides[r].dropoff)

\* C7: no step changes the direction of a pool, and every ride bound to a pool
\* has the direction of that pool
C7_DirectionKept ==
  [][/\ \A k \in PoolIds : pools'[k].direction = pools[k].direction
     /\ \A r \in RideIds :
          rides'[r].poolId # 0 =>
            pools'[rides'[r].poolId].direction =
              detectDirection(rides'[r].pickup, rides'[r].dropoff)]_vars

\* worker w is the only one that runs a cancellation of ride r
OnlyCancelOf(w, r) ==
  \A v \in Workers \ {w} :
    ~(procs[v].job.name = "cancel-ride" /\ procs[v].job.rideId = r)

\* worker w takes the step that writes the released counts to the pool row
ReleaseStep(w) ==
  /\ procs[w].pc = "cancel_release"
  /\ procs'[w].pc # "cancel_release"

\* C8: the release of a cancelled ride's capacity loses no update: with an
\* assignRideToPool on the same pool running concurrently, the write takes the
\* ride's demand off what is committed in the pool row, joining ride included
C8_ReleaseLosesNoAdmission ==
  [][\A w \in Workers :
       (/\ ReleaseStep(w)
        /\ OnlyCancelOf(w, procs[w].job.rideId)
        /\ rides[procs[w].job.rideId].status = "matched") =>
         LET k == procs[w].ride.poolId
         IN /\ pools'[k].filledSeats = pools[k].filledSeats - procs[w].ride.seats
            /\ pools'[k].filledLuggage = pools[k].filledLuggage - procs[w].ride.luggage]_vars

\* worker w takes a step of the cancelPoolForRide call it is in
CancelStep(w) ==
  /\ procs[w].job.name = "cancel-ride"
  /\ procs'[w] # procs[w]

\* the filled counts of every pool stay as they are
FilledUnchanged ==
  \A k \in PoolIds :
    /\ pools'[k].filledSeats = pools[k].filledSeats
    /\ pools'[k].filledLuggage = pools[k].filledLuggage

\* C9: a successful cancelPoolForRide of a matched ride bound to a pool lowers
\* that pool's filledSeats and filledLuggage by exactly the ride's seats and
\* luggage and sets the ride cancelled; the cancellation of a ride that is not
\* matched leaves the filled counts of every pool unchanged
C9_CancelEffect ==
  [][\A w \in Workers : (CancelStep(w) /\ OnlyCancelOf(w, procs[w].job.rideId)) =>
       LET k == procs[w].ride.poolId
           r == procs[w].job.rideId
       IN /\ (procs[w].ride.status = "matched" /\ k # 0) =>
               IF procs[w].pc = "cancel_release"
                 THEN /\ pools'[k].filledSeats =
                           pools[k].filledSeats - procs[w].ride.seats
                      /\ pools'[k].filledLuggage =
                           pools[k].filledLuggage - procs[w].ride.luggage
                      /\ \A j \in PoolIds \ {k} : pools'[j] = pools[j]
                 ELSE FilledUnchanged
          /\ ~(procs[w].ride.status = "matched" /\ k # 0) => FilledUnchanged
          /\ procs[w].pc = "cancel_ride" =>
               /\ rides'[r].status = "cancelled"
               /\ result'[w].ok]_vars

\* a worker takes a cancel-ride job for a ride that cancelPoolForRide refuses
RefusedCancel ==
  /\ queue # <<>>
  /\ Head(queue).name = "cancel-ride"
  /\ queue' = Tail(queue)
  /\ rides[Head(queue).rideId].status \in {"none", "completed", "cancelled"}

\* C10: cancelPoolForRide on a ride that is completed or cancelled, or on an
\* unknown ride id, returns a failure result and changes no ride and no pool
C10_RefusedCancelChangesNothing ==
  [][RefusedCancel =>
       /\ rides' = rides
       /\ pools' = pools
       /\ drivers' = drivers
       /\ procs' = procs
       /\ \E w \in Workers :
            /\ FreeWorker(w)
            /\ ~result'[w].ok
            /\ result'[w].op = "cancel"
            /\ \A v \in Workers \ {w} : result'[v] = result[v]]_vars

\* a cancelled ride whose second cancellation was refused
C10_SecondCancelRefused ==
  \E r \in RideIds, w \in Workers :
    /\ rides[r].status = "cancelled"
    /\ procs[w].pc = "idle"
    /\ result[w] = Err("cancel", "Ride already completed or cancelled")

\* worker w takes the step that ends a successful cancelPoolForRide call
CancelReturns(w) ==
  /\ procs[w].pc = "cancel_ride"
  /\ procs'[w].pc = "idle"

\* C11: the fee returned by a successful cancelPoolForRide is the fixed fee (5)
\* when the ride's pool, as the call read it, has reached driver_arrived, and 0
\* when the ride has no pool or its pool has not; a fee is charged only for a
\* pool at which the driver has arrived
C11_FeeOnlyAfterArrival ==
  [][\A w \in Workers : CancelReturns(w) =>
       LET k == procs[w].ride.poolId
           arrived == /\ k # 0
                      /\ \/ procs[w].pool.status = "driver_arrived"
                         \/ procs[w].pool.driverArrivedAt
       IN /\ result'[w].ok
          /\ result'[w].fee = IF arrived THEN 5 ELSE 0
          /\ result'[w].fee # 0 => pools[k].driverArrivedAt]_vars

\* a ride cancelled after the driver arrived at its pool, charged the fee
C11_FeeCharged ==
  \E r \in RideIds, w \in Workers :
    /\ rides[r].status = "cancelled"
    /\ rides[r].poolId # 0
    /\ pools[rides[r].poolId].status = "driver_arrived"
    /\ procs[w].pc = "idle"
    /\ result[w] = Ok("cancel", 5)

\* the job that POST /api/rides/{id}/cancel puts on the queue, for a ride that
\* is neither completed nor cancelled
FromCancelEndpoint(job) ==
  /\ job.name = "find-pool"
  /\ job.pickup = ORIGIN
  /\ job.seats = 0
  /\ rides[job.rideId].status \in {"pending", "matched", "driver_arrived"}

\* C12: for a cancellation submitted through POST /api/rides/{id}/cancel the
\* worker runs cancelPoolForRide, and no step taken for that request matches a
\* ride or creates a pool
C12_CancelPostRunsCancel ==
  [][/\ \A w \in Workers :
          (/\ FreeWorker(w)
           /\ queue # <<>>
           /\ FromCancelEndpoint(Head(queue))
           /\ queue' = Tail(queue)) =>
            \/ procs'[w].pc \in {"cancel_pool", "cancel_ride"}
            \/ procs'[w].pc = "idle" /\ result'[w].op = "cancel"
     /\ \A w \in Workers :
          (FromCancelEndpoint(procs[w].job) /\ procs'[w] # procs[w]) =>
            /\ Len(pools') = Len(pools)
            /\ \A r \in RideIds :
                 rides'[r].status = "matched" => rides[r].status = "matched"]_vars

\* a driverArrived call is made: the one request that puts no job on the queue
ArriveCall ==
  /\ nRequests' = nRequests + 1
  /\ queue' = queue

\* C13: driverArrived(poolId, driverId) succeeds only if the pool exists, its
\* driverId is the caller and its status is forming; in every other case it
\* returns a failure and leaves every pool and every ride unchanged
C13_ArrivalOnlyByOwnDriverWhileForming ==
  [][ArriveCall =>
       LET k == arrival'.poolId
           d == arrival'.driverId
       IN IF k \in PoolIds /\ pools[k].driverId = d /\ pools[k].status = "forming"
            THEN /\ arrival'.error = ""
                 /\ pools'[k].status = "driver_arrived"
            ELSE /\ arrival'.error # ""
                 /\ pools' = pools
                 /\ rides' = rides]_vars

\* a second arrival at a pool that is already driver_arrived was refused
C13_SecondArrivalRefused ==
  /\ arrival.poolId \in PoolIds
  /\ pools[arrival.poolId].status = "driver_arrived"
  /\ pools[arrival.poolId].driverId = arrival.driverId
  /\ arrival.error = "Pool is not in forming state"

\* C14: a successful driverArrived moves the pool from forming to
\* driver_arrived and, in the same step, gives that status to every ride whose
\* poolId is that pool and changes no ride of another pool
C14_ArrivalCascade ==
  [][(ArriveCall /\ arrival'.error = "") =>
       LET k == arrival'.poolId
       IN /\ pools[k].status = "forming"
          /\ pools'[k].status = "driver_arrived"
          /\ pools'[k].driverArrivedAt
          /\ \A j \in PoolIds \ {k} : pools'[j] = pools[j]
          /\ \A r \in RideIds :
               IF rides[r].status # "none" /\ rides[r].poolId = k
                 THEN rides'[r] = [rides[r] EXCEPT !.status = "driver_arrived"]
                 ELSE rides'[r] = rides[r]]_vars

\* the driver arrived at a pool: its ride is driver_arrived, the matched ride of
\* another pool is as it was
C14_CascadedToOwnRidesOnly ==
  \E a \in RideIds, b \in RideIds :
    /\ arrival.error = ""
    /\ arrival.poolId \in PoolIds
    /\ pools[arrival.poolId].status = "driver_arrived"
    /\ rides[a].poolId = arrival.poolId
    /\ rides[a].status = "driver_arrived"
    /\ rides[b].poolId \notin {0, arrival.poolId}
    /\ rides[b].status = "matched"

\* the pools a search for the job could return now
FoundFor(job) ==
  findBestPool(job.pickup, job.dropoff, job.seats, job.luggage, job.direction,
               PoolSearchRadiusKm)

\* C15: once driverArrived has committed for a pool, its status never returns
\* to forming and no later findBestPool returns it
C15_ArrivedPoolNeverFound ==
  [][/\ \A k \in PoolIds : pools[k].driverArrivedAt => pools'[k].status # "forming"
     /\ \A w \in Workers :
          (procs[w].pc = "idle" /\ procs'[w].pc = "assign") =>
            ~pools[procs'[w].existingPool.id].driverArrivedAt
     /\ (queue # <<>> /\ Head(queue).name = "find-pool") =>
          \A k \in FoundFor(Head(queue)) : ~pools[k].driverArrivedAt]_vars

\* a search made after the driver arrived at pool k finds nothing, though the
\* ride has k's direction, is within the radius and fits k's free capacity
C15_SearchSkipsArrivedPool ==
  \E w \in Workers, k \in PoolIds :
    /\ procs[w].pc = "create"
    /\ procs[w].existingPool.id = 0
    /\ pools[k].driverArrivedAt
    /\ pools[k].direction = procs[w].job.direction
    /\ pools[k].filledSeats + procs[w].job.seats <= pools[k].maxSeats
    /\ pools[k].filledLuggage + procs[w].job.luggage <= pools[k].maxLuggage
    /\ WithinKm(pools[k].center, procs[w].job.pickup, PoolSearchRadiusKm)

\* worker w takes the step that ends the transaction of createPoolForRide,
\* the driver it selected being still available
CreateEnds(w) ==
  /\ procs[w].pc = "create_lock"
  /\ procs'[w].pc = "idle"
  /\ drivers[procs[w].nearestDriver].status = "available"

\* the vehicle of driver d takes the job's seats and luggage
VehicleFits(d, job) ==
  /\ job.seats <= Vehicles[d].maxSeats
  /\ job.luggage <= Vehicles[d].maxLuggage

\* createPoolForRide has inserted the pool of the job for driver d, bound the
\* driver and matched the ride, all in this step
PoolCreated(w, d, job) ==
  LET k == Len(pools) + 1
  IN /\ Len(pools') = k
     /\ \A j \in PoolIds : pools'[j] = pools[j]
     /\ pools'[k].status = "forming"
     /\ pools'[k].direction = job.direction
     /\ pools'[k].driverId = d
     /\ pools'[k].maxSeats = Vehicles[d].maxSeats
     /\ pools'[k].maxLuggage = Vehicles[d].maxLuggage
     /\ pools'[k].filledSeats = job.seats
     /\ pools'[k].filledLuggage = job.luggage
     /\ pools'[k].waypoints = << [pos |-> job.pickup, type |-> "pickup",
                                  rideRequestId |-> job.rideId],
                                 [pos |-> job.dropoff, type |-> "dropoff",
                                  rideRequestId |-> job.rideId] >>
     /\ drivers'[d].status = "assigned"
     /\ \A e \in DriverIds \ {d} : drivers'[e] = drivers[e]
     /\ rides[job.rideId].status # "none" =>
          /\ rides'[job.rideId].status = "matched"
          /\ rides'[job.rideId].poolId = k
     /\ result'[w] = Ok("create", 0)

C18_NoDriverNoPool ==
  [][\A w \in Workers :
       /\ (/\ procs[w].pc = "create"
           /\ procs'[w] # procs[w]
           /\ \A d \in DriverIds : drivers[d].status # "available") =>
            /\ procs'[w].pc = "idle"
            /\ result'[w] = Err("create", "No available drivers nearby")
            /\ pools' = pools /\ drivers' = drivers /\ rides' = rides
       /\ (/\ procs[w].pc = "create_lock"
           /\ procs'[w] # procs[w]
           /\ drivers[procs[w].nearestDriver].status # "available") =>
            /\ procs'[w].pc = "idle"
            /\ result'[w] = Err("create", "Driver no longer available")
            /\ pools' = pools /\ drivers' = drivers /\ rides' = rides]_vars

\* two creations selected the same driver: one took it, the other found it
\* no longer available and left its ride pending with no pool, while the
\* other driver stays available
C18_DriverLostInRace ==
  \E r, q \in RideIds, w, v \in Workers :
    /\ w # v
    /\ procs[w].pc = "idle" /\ procs[v].pc = "idle"
    /\ result[w] = Err("create", "Driver no longer available")
    /\ result[v] = Ok("create", 0)
    /\ rides[r].status = "pending" /\ rides[r].poolId = 0
    /\ rides[q].status = "matched"
    /\ \A p \in RideIds \ {r, q} : rides[p].status = "none"
    /\ Len(pools) = 1
    /\ \E d \in DriverIds : drivers[d].status = "available"

\* C19: a dispatch job whose pool creation fails because no driver is
\* available is retried by the queue: the step in which createPoolForRide
\* returns "No available drivers nearby" for a find-pool job puts that job
\* back on the queue for another attempt
C19_FailedDispatchRetried ==
  [][\A w \in Workers :
       (/\ procs[w].pc = "create"
        /\ procs[w].job.name = "find-pool"
        /\ procs'[w].pc = "idle"
        /\ result'[w] = Err("create", "No available drivers nearby")) =>
         \E i \in 1..Len(queue') : queue'[i] = procs[w].job]_vars

\* C20: a ride is sent to an existing pool only if the minimal extra distance
\* of inserting it into the pool's route is at most the ride's own maxDetourKm
\* (3 km unless the client says otherwise): every pool that the search of a
\* find-pool job selects admits the ride within that tolerance, and a job
\* with no admissible candidate goes to pool creation instead
C20_SelectedPoolWithinTolerance ==
  [][\A w \in Workers :
       (procs[w].pc = "idle" /\ procs'[w].pc = "assign") =>
         LET job == procs'[w].job
             det == calculateDetour(pools[procs'[w].existingPool.id],
                                    job.pickup, job.dropoff, job.direction)
         IN det.finite /\ det.detourKm <= DefaultMaxDetourKm]_vars

\* C21: in every reachable state the waypoint list of each pool respects the
\* pool's direction: no dropoff precedes a pickup, a city_to_airport pool has
\* one shared anchor dropoff after all its pickups, an airport_to_city pool
\* has one shared anchor pickup before all its dropoffs
C21_WaypointsRespectDirection ==
  \A k \in PoolIds :
    LET wps == pools[k].waypoints
    IN /\ \A i, j \in 1..Len(wps) :
            (i < j /\ wps[i].type = "dropoff") => wps[j].type # "pickup"
       /\ pools[k].direction = "city_to_airport" => Len(OfType(wps, "dropoff")) = 1
       /\ pools[k].direction = "airport_to_city" => Len(OfType(wps, "pickup")) = 1

\* C22: createPoolForRide binds only a driver within the driver-search
\* radius of the ride's pickup: a step that ends createPoolForRide with a new
\* pool has bound a driver at most DriverSearchRadiusKm from the pickup, and
\* when the selected driver is farther no pool is created and no ride changes
C22_BoundDriverWithinRadius ==
  [][\A w \in Workers :
       (/\ procs[w].pc = "create_lock"
        /\ procs'[w].pc = "idle"
        /\ ~WithinKm([num |-> drivers[procs[w].nearestDriver].pos, den |-> 1],
                     procs[w].job.pickup, DriverSearchRadiusKm)) =>
         /\ pools' = pools
         /\ drivers' = drivers
         /\ rides' = rides]_vars

\* C23: when assignRideToPool refuses the selected pool, the dispatch attempt
\* searches once more without that pool and tries the new winner; it goes on
\* to createPoolForRide only when no other pool is eligible for the ride
C23_ConflictRetriesSearch ==
  [][\A w \in Workers :
       (/\ procs[w].pc = "assign_locked"
        /\ procs'[w].pc = "create"
        /\ rides[procs[w].job.rideId].status = "pending") =>
         LET job == procs[w].job
         IN ~\E j \in PoolIds \ {procs[w].existingPool.id} :
               IsCandidate(pools[j], job.pickup, job.seats, job.luggage,
                           job.direction, PoolSearchRadiusKm)]_vars

\* C24: a pool that successful assignments have brought to full capacity
\* (filledSeats = maxSeats or filledLuggage = maxLuggage) is no longer forming
\* once every dispatch attempt on it has finished, whatever the interleaving
C24_FullPoolLeavesForming ==
  \A k \in PoolIds :
    (/\ Len(pools[k].waypoints) > 2
     /\ \/ pools[k].filledSeats = pools[k].maxSeats
        \/ pools[k].filledLuggage = pools[k].maxLuggage
     /\ \A w \in Workers :
          ~(/\ procs[w].pc \in {"assign", "assign_locked", "pool_full"}
            /\ procs[w].existingPool.id = k)) =>
      pools[k].status # "forming"

\* C25: the version counter of a pool never decreases and strictly increases
\* on every committed change of the pool row (a ride assignment, a capacity
\* release by a cancellation, a driver arrival, a status change at full
\* capacity)
C25_VersionBumpedOnEveryMutation ==
  [][\A k \in PoolIds :
       /\ pools'[k].version >= pools[k].version
       /\ pools'[k] # pools[k] => pools'[k].version > pools[k].version]_vars

\* C26 as stated: after createPoolForRide and after every successful
\* assignRideToPool the stored center of the pool equals the arithmetic mean
\* of the coordinates of all the waypoints stored in the pool
C26_CenterIsExactMean ==
  \A k \in PoolIds :
    Len(pools[k].waypoints) > 0 =>
      pools[k].center.num * Len(pools[k].waypoints)
        = pools[k].center.den * SumPos(pools[k].waypoints)

\* C26 amended: the stored center of every pool is the arithmetic mean of
\* the coordinates of all its stored waypoints rounded to the scale of the
\* center columns: it is a value of that scale and differs from the mean by
\* at most half a unit
C26_CenterIsRoundedMean ==
  \A k \in PoolIds :
    LET n == Len(pools[k].waypoints)
        c == pools[k].center
    IN n > 0 =>
         /\ c.den = 1
         /\ 2 * Abs(c.num * n - SumPos(pools[k].waypoints)) <= n

\* a ride was assigned to a pool whose four waypoints have a mean that is
\* not a value of the columns' scale
C26_AssignedWithRoundedCenter ==
  \E k \in PoolIds, r \in RideIds :
    /\ Len(pools[k].waypoints) = 4
    /\ pools[k].waypoints[3].rideRequestId = r
    /\ rides[r].status = "matched"
    /\ rides[r].poolId = k
    /\ SumPos(pools[k].waypoints) % 4 # 0

\* the route wps with the stop x put after its i-th waypoint
InsertAt(wps, i, x) == SubSeq(wps, 1, i) \o <<x>> \o SubSeq(wps, i + 1, Len(wps))

\* the length of a route, leg by leg
RECURSIVE RouteLength(_)
RouteLength(wps) ==
  IF Len(wps) < 2 THEN 0
  ELSE Abs(wps[1].pos - wps[2].pos) + RouteLength(Tail(wps))

\* the place of the first waypoint of type t in a route that has one
FirstOfType(wps, t) ==
  CHOOSE i \in 1..Len(wps) :
    wps[i].type = t /\ \A j \in 1..(i - 1) : wps[j].type # t

\* the least extra length over the insertions that keep the direction: a new
\* pickup anywhere before the anchor dropoff of a city_to_airport route, a new
\* dropoff anywhere after the anchor pickup of an airport_to_city route
BruteForceDetour(wps, stop, direction) ==
  LET new == [pos |-> stop, rideRequestId |-> 0,
              type |-> IF direction = "city_to_airport" THEN "pickup" ELSE "dropoff"]
      places == IF direction = "city_to_airport"
                  THEN 0..(FirstOfType(wps, "dropoff") - 1)
                  ELSE FirstOfType(wps, "pickup")..Len(wps)
  IN MinOf({RouteLength(InsertAt(wps, i, new)) : i \in places}) - RouteLength(wps)

\* the route of a pool holds the anchor of the pool's direction
HasAnchor(k) ==
  \E i \in 1..Len(pools[k].waypoints) :
    pools[k].waypoints[i].type =
      (IF pools[k].direction = "city_to_airport" THEN "dropoff" ELSE "pickup")

\* C27: for the route of every pool that holds its anchor and every new
\* stop, the detourKm that calculateOptimalDetour returns is the true minimum,
\* over the insertion places that keep the direction, of the length of the
\* route with the stop inserted minus the length of the route as it is
C27_DetourIsBruteForceMinimum ==
  \A k \in PoolIds, stop \in DetourLocs :
    HasAnchor(k) =>
      LET res == calculateOptimalDetour(pools[k].waypoints, stop, stop,
                                        pools[k].direction, DetourToleranceKm)
      IN /\ res.finite
         /\ res.detourKm = BruteForceDetour(pools[k].waypoints, stop, pools[k].direction)

Qualifies(k, job) ==
  /\ pools[k].status = "forming"
  /\ pools[k].driverId \in DriverIds
  /\ pools[k].direction = job.direction
  /\ pools[k].filledSeats + job.seats <= pools[k].maxSeats
  /\ pools[k].filledLuggage + job.luggage <= pools[k].maxLuggage
  /\ Abs(pools[k].center.num - pools[k].center.den * job.pickup)
       <= PoolSearchRadiusKm * pools[k].center.den

DetourOf(k, job) == calculateDetour(pools[k], job.pickup, job.dropoff, job.direction)

SearchCenter(job) ==
  IF job.direction = "airport_to_city" THEN job.dropoff ELSE job.pickup

\* the pools a search centered on that point can return
AnchoredSearch(job) ==
  UNION {
    LET fin == {k \in S : calculateDetour(pools[k], job.pickup, job.dropoff,
                                          job.direction).finite}
        det(k) == calculateDetour(pools[k], job.pickup, job.dropoff,
                                  job.direction).detourKm
    IN {k \in fin :
          /\ \A j \in fin : det(k) <= det(j)
          /\ \A j \in fin : det(j) = det(k)
                => ~Closer(pools[j].center, pools[k].center, SearchCenter(job))}
    : S \in AvailablePools(SearchCenter(job), job.seats, job.luggage,
                           job.direction, PoolSearchRadiusKm)}

\* C31: the pool search of a dispatch attempt is centered on the ride's pickup
\* for a city_to_airport ride and on the ride's dropoff for an airport_to_city
\* ride: what the search returns is what a search around that point returns
C31_SearchCenteredOnAnchor ==
  [][\A w \in Workers :
       (/\ procs[w].pc = "idle"
        /\ procs'[w].pc \in {"assign", "create"}
        /\ procs'[w].job.name = "find-pool") =>
         IF procs'[w].pc = "assign"
           THEN procs'[w].existingPool.id \in AnchoredSearch(procs'[w].job)
           ELSE AnchoredSearch(procs'[w].job) = {}]_vars

\* the transactions whose row locks keep the next statement of call t waiting
WaitsOn(t) ==
  LET tx == txs[t]
      others(S) == S \ {0, t}
  IN IF tx.pc = "select_driver" THEN others({driverLock[tx.driverId]})
     ELSE IF tx.pc = "select_pool" /\ tx.op = "cancelPoolForRide"
       THEN others({poolLock[tx.ride.poolId]})
     ELSE IF tx.pc = "select_pool" THEN others({poolLock[tx.poolId]})
     ELSE IF tx.pc = "update_pool" THEN others({poolLock[tx.ride.poolId]})
     ELSE IF tx.pc = "update_ride" THEN others({rideLock[tx.rideId]})
     ELSE IF tx.pc = "update_rides" /\ tx.toLock # {}
       THEN IF \E r \in tx.toLock : rideLock[r] = 0 THEN {}
            ELSE others({rideLock[r] : r \in tx.toLock})
     ELSE {}

\* no set of calls waits in a circle for one another's row locks
NoWaitCycle ==
  ~\E S \in SUBSET TxIds :
      /\ S # {}
      /\ \A t \in S : WaitsOn(t) \cap S # {}

\* a row lock is held by an open transaction only, never by a call that has
\* returned and never by cancelPoolForRide, which runs outside a transaction
LocksOnlyOfOpenTx ==
  \A t \in TxIds :
    (txs[t].pc = "idle" \/ txs[t].op = "cancelPoolForRide") =>
      /\ \A d \in DriverIds : driverLock[d] # t
      /\ \A k \in PoolIds : poolLock[k] # t
      /\ \A r \in RideIds : rideLock[r] # t

\* C32: no interleaving of assignRideToPool, createPoolForRide,
\* assignDriverToPool, driverArrived and cancelPoolForRide deadlocks: no calls
\* wait in a circle for row locks, a transaction's locks are gone when it has
\* committed or aborted, and every call that has started returns
C32_NoDeadlock ==
  /\ []NoWaitCycle
  /\ []LocksOnlyOfOpenTx
  /\ \A t \in TxIds : (txs[t].pc # "idle") ~> (txs[t].pc = "idle")

\* two transactions are open and both hold row locks; one of them waits for a
\* ride row that the other one has locked
C32_WaitsForHeldRow ==
  \E t, u \in TxIds :
    /\ t # u
    /\ u \in WaitsOn(t)
    /\ txs[t].pc \in {"update_ride", "update_rides"}
    /\ (\E d \in DriverIds : driverLock[d] = t) \/ (\E k \in PoolIds : poolLock[k] = t)
    /\ \E k \in PoolIds : poolLock[k] = u
    /\ \E r \in RideIds : rideLock[r] = u

\* C33: a dispatch job that hits a store failure inside findBestPool,
\* assignRideToPool or createPoolForRide is reported to the queue as failed
\* and retried: it is never completed while its ride is still pending, so
\* after the failing step the job of a pending ride is on the queue again
C33_StoreFailureRetried ==
  [][\A w \in Workers :
       (/\ StoreFailure(w)
        /\ CurrentCall(w) \in {"findBestPool", "assignRideToPool", "createPoolForRide"}
        /\ rides'[FailingJob(w).rideId].status = "pending") =>
         \E i \in 1..Len(queue') : queue'[i] = FailingJob(w)]_vars

\* the pools that driver d is bound to and that are not over
OpenPoolsOf(d) ==
  {k \in PoolIds : pools[k].driverId = d
                   /\ pools[k].status \notin {"completed", "cancelled"}}

\* C34: a driver is the driverId of at most one pool that is not completed or
\* cancelled; of two createPoolForRide transactions that selected the same
\* available driver one creates the pool, and the other, which finds the
\* driver taken once it holds the row lock, returns without creating a pool,
\* without matching its ride and without touching the driver
C34_DriverInOneOpenPool ==
  /\ [](\A d \in DriverIds : Cardinality(OpenPoolsOf(d)) <= 1)
  /\ [][\A t \in TxIds :
          (/\ txs[t].op = "createPoolForRide"
           /\ txs[t].pc = "select_driver"
           /\ txs'[t] # txs[t]
           /\ drivers[txs[t].driverId].status # "available") =>
            /\ txs'[t] = NoTx
            /\ pools' = pools
            /\ rides' = rides
            /\ drivers' = drivers]_vars

\* a createPoolForRide transaction is about to lock the driver it selected,
\* after another creation has committed a pool bound to that driver
C34_SelectedDriverTaken ==
  \E t \in TxIds, k \in PoolIds :
    /\ txs[t].op = "createPoolForRide"
    /\ txs[t].pc = "select_driver"
    /\ driverLock[txs[t].driverId] = 0
    /\ drivers[txs[t].driverId].status = "assigned"
    /\ k = Len(pools)
    /\ k > 2
    /\ pools[k].driverId = txs[t].driverId
    /\ pools[k].waypoints # <<>>

\* the rides bound to pool k that are not cancelled
BoundRides(k) ==
  {r \in RideIds : /\ rides[r].status \notin {"none", "cancelled"}
                   /\ rides[r].poolId = k}

RECURSIVE SumSeats(_)
SumSeats(S) ==
  IF S = {} THEN 0
  ELSE LET r == CHOOSE x \in S : TRUE
       IN rides[r].seats + SumSeats(S \ {r})

RECURSIVE SumLuggage(_)
SumLuggage(S) ==
  IF S = {} THEN 0
  ELSE LET r == CHOOSE x \in S : TRUE
       IN rides[r].luggage + SumLuggage(S \ {r})

\* C35: in every reachable state each pool's filledSeats and filledLuggage
\* are not negative and equal the seats and the luggage of the rides that are
\* bound to the pool and not cancelled
C35_FilledEqualsBoundDemand ==
  \A k \in PoolIds :
    /\ pools[k].filledSeats >= 0
    /\ pools[k].filledLuggage >= 0
    /\ pools[k].filledSeats = SumSeats(BoundRides(k))
    /\ pools[k].filledLuggage = SumLuggage(BoundRides(k))

\* C36: the ride statuses cancelled and completed are terminal: no step
\* changes the status of a ride that is cancelled or completed, neither the
\* cascade of driverArrived on its pool nor a dispatch job that runs for it
C36_CancelledIsTerminal ==
  [][\A r \in RideIds :
       rides[r].status \in {"cancelled", "completed"} =>
         rides'[r].status = rides[r].status]_vars

\* C37: a pool's status never moves backwards: no step takes a pool that is
\* driver_arrived back to forming or driver_assigned, also not the status
\* update of a dispatch attempt that filled the pool before the driver arrived
C37_ArrivedPoolStaysArrived ==
  [][\A k \in PoolIds :
       pools[k].status = "driver_arrived" =>
         pools'[k].status \notin {"forming", "driver_assigned"}]_vars

\* another call of cancelPoolForRide for the same ride has already written
\* the release of the ride's capacity
ReleasedByOther(w) ==
  \E v \in Workers \ {w} :
    /\ procs[v].pc = "cancel_ride"
    /\ procs[v].job.rideId = procs[w].job.rideId
    /\ procs[v].ride.status = "matched"
    /\ procs[v].ride.poolId # 0

\* C38: of two cancelPoolForRide calls for one matched ride that run
\* concurrently exactly one succeeds and the ride's seats and luggage are
\* released once: a call releases capacity only for a ride that is not yet
\* cancelled and not yet released by the other call, and it returns success
\* only for a ride that was not cancelled before
C38_ConcurrentCancelOnce ==
  [][\A w \in Workers :
       /\ (procs[w].pc = "cancel_release" /\ procs'[w].pc = "cancel_ride") =>
            /\ rides[procs[w].job.rideId].status # "cancelled"
            /\ ~ReleasedByOther(w)
       /\ (/\ procs[w].pc = "cancel_ride"
           /\ procs'[w].pc = "idle"
           /\ procs[w].ride.status = "matched") =>
            rides[procs[w].job.rideId].status # "cancelled"]_vars

\* the number of waypoints of type ty that pool k holds for ride r
StopsOf(k, r, ty) ==
  Cardinality({i \in 1..Len(pools[k].waypoints) :
                 /\ pools[k].waypoints[i].rideRequestId = r
                 /\ pools[k].waypoints[i].type = ty})

\* C39: in every reachable state every waypoint of a pool belongs to a ride
\* that is bound to the pool and not cancelled, and each such ride has exactly
\* one pickup and one dropoff waypoint in the pool's route; so the waypoints
\* of a cancelled ride are gone from the route
C39_WaypointsOfBoundRides ==
  \A k \in PoolIds :
    /\ \A i \in 1..Len(pools[k].waypoints) :
         pools[k].waypoints[i].rideRequestId \in BoundRides(k)
    /\ \A r \in BoundRides(k) :
         /\ StopsOf(k, r, "pickup") = 1
         /\ StopsOf(k, r, "dropoff") = 1

\* C40: for the route of every pool that createPoolForRide and later
\* assignRideToPool calls have produced, and every new stop, the detour that
\* calculateDetour and calculateOptimalDetour compute is not negative (the
\* distances on the line satisfy the triangle inequality)
C40_DetourNotNegative ==
  \A k \in PoolIds, stop \in DetourLocs :
    LET viaPool == calculateDetour(pools[k], stop, stop, pools[k].direction)
        solver == calculateOptimalDetour(pools[k].waypoints, stop, stop,
                                         pools[k].direction, DetourToleranceKm)
    IN /\ viaPool.finite => viaPool.detourKm >= 0
       /\ solver.finite => solver.detourKm >= 0

====
